---- MODULE Spec2Model ----
(***************************************************************************)
(* Model of the parsing-and-aggregation pipeline of Lager_Produktivitaet:  *)
(* load_excel (data_loader.py) as a step machine over the month sheets of  *)
(* a workbook, followed by aggregate_weekly and aggregate_daily            *)
(* (aggregation.py) applied to the tidy table that load_excel returned.    *)
(*                                                                         *)
(* Conventions.  A spreadsheet cell is a record [k, s, n]: k is the kind   *)
(* ("null", "str", "num", "date"), s the text of a string cell and n the   *)
(* number of a numeric cell or the day number of a date cell.  Day 0 is a  *)
(* Monday, so weekday(d) = d % 7.  Hours are kept in minutes (Hours * 60)  *)
(* and staff numbers in tenths, so that all arithmetic is on integers.     *)
(***************************************************************************)
EXTENDS Integers, Sequences, FiniteSets, TLC

VARIABLES
    file,         \* the uploaded workbook: [sheets, angaben]
    pc,           \* position inside load_excel / after it
    month,        \* index into months of the sheet being read
    i,            \* row index of the block scan
    block_start,  \* first row of the block being scanned
    records,      \* the records list
    blocks,       \* history: month, block_start, block_end and records of every block cut
    angaben_df,   \* returned coefficient table (Task normalised)
    minutes_col,  \* returned coefficient column name
    df_long,      \* returned long records
    summary_long, \* returned tidy long table
    failed,       \* TRUE when the except branch of load_excel produced the result
    request       \* last aggregation request and its result

vars == <<file, pc, month, i, block_start, records, blocks, angaben_df,
          minutes_col, df_long, summary_long, failed, request>>

-----------------------------------------------------------------------------
(* Bounds of the model *)

MaxRows == 4        \* rows below the date header in a freely scanned sheet
MaxMetricRows == 2  \* metric rows of a structured team block
MaxDay == 7         \* target dates range over 0..MaxDay
MaxTableRows == 2   \* rows of a tidy table handed to the aggregators directly

-----------------------------------------------------------------------------
(* Cells *)

Null == [k |-> "null", s |-> "", n |-> 0]
Str(x) == [k |-> "str", s |-> x, n |-> 0]
Num(v) == [k |-> "num", s |-> "", n |-> v]
Date(d) == [k |-> "date", s |-> "", n |-> d]

\* pd.isna(x)
IsNa(c) == c.k = "null"

\* str.strip() on the texts that occur in the model
Strip(s) ==
    CASE s = "  " -> ""
      [] s = " abfallrollen gesägt" -> "abfallrollen gesägt"
      [] s = "früh " -> "früh"
      [] s = " Sägen" -> "Sägen"
      [] OTHER -> s

\* str.swapcase() on a metric name of the model, in place of str.lower()
SwapCase(s) ==
    CASE s = "Anzahl MA" -> "aNZAHL ma"
      [] s = "aNZAHL ma" -> "Anzahl MA"
      [] OTHER -> s

\* str.lower() on the texts that occur in the model
Lower(s) ==
    CASE s = "Anzahl MA" -> "anzahl ma"
      [] s = "Auftragsrollen gesägt" -> "auftragsrollen gesägt"
      [] s = "Abfallrollen gesägt" -> "abfallrollen gesägt"
      [] s = "verladene Rollen" -> "verladene rollen"
      [] s = "gerichtete Rollen" -> "gerichtete rollen"
      [] s = "dafür gebraucht (Stunden)" -> "dafür gebraucht (stunden)"
      [] s = "Schicht" -> "schicht"
      [] s = "Team" -> "team"
      [] s = "Sägen" -> "sägen"
      [] s = "Verladen" -> "verladen"
      [] s = "Richten" -> "richten"
      [] s = "Vorhandene MA" -> "vorhandene ma"
      [] s = "Juli" -> "juli"
      [] s = "JULI" -> "juli"
      [] s = "August" -> "august"
      [] s = "September" -> "september"
      [] s = "Oktober" -> "oktober"
      [] s = "Minuten" -> "minuten"
      [] s = "VORGABE" -> "vorgabe"
      [] s = "Termin" -> "termin"
      [] s = "Task" -> "task"
      [] s = "Zeit" -> "zeit"
      [] s = "Info" -> "info"
      [] s = "Dauer" -> "dauer"
      [] s = "Pretty" -> "pretty"
      [] OTHER -> s

\* str(x) of a cell
StrOf(c) ==
    CASE c.k = "str" -> c.s
      [] c.k = "null" -> "nan"
      [] c.k = "num" -> IF c.n = 1 THEN "1" ELSE IF c.n = 2 THEN "2" ELSE "n"
      [] OTHER -> "date"

\* the blank test of the scan: pd.isna(x) or str(x).strip() == ""
IsBlank(c) == IsNa(c) \/ Strip(StrOf(c)) = ""


-----------------------------------------------------------------------------
(* Workbooks *)

months == <<"Juli", "August", "September", "Oktober">>

NoneCol == "<None>"
EmptyFrame == [cols |-> <<>>, rows |-> <<>>]

SeqsUpTo(S, n) == UNION {[1..k -> S] : k \in 0..n}

\* rows of the freely scanned sheets: two kinds of separator, two kinds of non-blank row
RowNull == <<Null, Null, Null>>
RowWs == <<Str("  "), Null, Null>>
RowS == <<Str("Schicht"), Str("Früh"), Str("Spät")>>
RowM == <<Str("Anzahl MA"), Num(2), Num(1)>>
ScanRows == {RowNull, RowWs, RowS, RowM}
ScanHeaders ==
    { <<Null, Date(1), Date(2)>>,
      <<Null, Date(1), Null>>,
      <<Str("Datum"), Str("  "), Str("  ")>> }
ScanGrids == {<<h>> \o rows : h \in ScanHeaders, rows \in SeqsUpTo(ScanRows, MaxRows)}

\* a sheet with one well-formed block
GoodGrid ==
    << <<Null, Date(1), Date(2)>>,
       <<Str("Team"), Str("A"), Str("A")>>,
       <<Str("Schicht"), Str("Früh"), Str("Spät")>>,
       <<Str("Auftragsrollen gesägt"), Num(1), Num(2)>> >>

\* sheets with one structured block: team row, shift row, metric rows
LoadHeaders ==
    { <<Null, Date(1), Date(1)>>,
      <<Null, Date(1), Date(2)>>,
      <<Null, Date(5), Null>> }
TeamRow == <<Str("Team"), Str("A"), Str("A")>>
ShiftRows ==
    { <<Str("Schicht"), Str("Früh"), Str("Früh")>>,
      <<Str("Schicht"), Str("früh "), Str("Spät")>>,
      <<Str("Schicht"), Str("Früh"), Str("Tag")>> }
MetricRows ==
    { <<Str("Anzahl MA"), Num(2), Num(1)>>,
      <<Str("Auftragsrollen gesägt"), Num(1), Num(2)>>,
      <<Str(" abfallrollen gesägt"), Num(2), Str("x")>>,
      <<Str("dafür gebraucht (Stunden)"), Num(0), Num(3)>>,
      <<Str("verladene Rollen"), Num(0), Num(0)>>,
      <<Str("gerichtete Rollen"), Num(2), Num(1)>> }
LoadGrids ==
    {<<h, TeamRow, sh>> \o ms :
        h \in LoadHeaders, sh \in ShiftRows, ms \in SeqsUpTo(MetricRows, MaxMetricRows)}

\* Angaben sheets: a Task column and a coefficient column
AngabenOne == [cols |-> <<"Task", "Minuten">>, rows |-> << <<Str("Sägen"), Num(45)>> >>]
AngabenTables ==
    { [cols |-> <<"Task", "Minuten">>, rows |-> <<>>],
      AngabenOne,
      [cols |-> <<"Task", "Zeit">>,
       rows |-> << <<Str(" Sägen"), Num(45)>>, <<Str("sägen"), Num(45)>> >>],
      [cols |-> <<"Task", "Minuten">>,
       rows |-> << <<Str("Verladen"), Num(30)>>, <<Str("Vorhandene MA"), Num(45)>> >>],
      [cols |-> <<"Task">>, rows |-> << <<Str("Sägen")>> >>],
      [cols |-> <<"Task", "Minuten", "Pretty">>,
       rows |-> << <<Str("Richten"), Num(30), Str("Richten")>> >>],
      [cols |-> <<"Task", "Minuten">>,
       rows |-> << <<Str("sonstiges / aufräumarbeiten (in std)"), Num(30)>> >>],
      [cols |-> <<"Task", "Minuten">>,
       rows |-> << <<Str("sonstiges / aufräumarbeiten (in std)"), Num(30)>>,
                   <<Str("sonstiges / aufräumarbeiten (in std)"), Num(30)>> >>] }

\* Angaben sheets that differ in the names and the order of their columns
AngabenColumnTables ==
    { [cols |-> <<"Task", "Info", "VORGABE">>,
       rows |-> << <<Str("Sägen"), Num(7), Num(45)>> >>],
      [cols |-> <<"Termin", "Task", "Minuten">>,
       rows |-> << <<Num(9), Str("Sägen"), Num(45)>> >>],
      [cols |-> <<"Task", "Zeit", "Dauer">>,
       rows |-> << <<Str("Sägen"), Num(45), Num(7)>> >>] }

Sheet(name, grid) == [name |-> name, grid |-> grid]

Workbooks ==
    {[sheets |-> <<Sheet("Juli", g)>>, angaben |-> AngabenOne] : g \in ScanGrids}
    \cup {[sheets |-> <<Sheet("Juli", g), Sheet("August", GoodGrid)>>, angaben |-> AngabenOne] :
            g \in ScanGrids}
    \cup {[sheets |-> <<Sheet("Juli", g)>>, angaben |-> a] :
            g \in LoadGrids, a \in AngabenTables}
    \cup {[sheets |-> <<Sheet(n, GoodGrid)>>, angaben |-> AngabenOne] :
            n \in {"juli", "JULI", "Oktober"}}
    \cup {[sheets |-> <<Sheet("Juli", GoodGrid)>>, angaben |-> a] :
            a \in AngabenColumnTables}

sheet_names(f) == {f.sheets[k].name : k \in 1..Len(f.sheets)}
read_excel(f, name) ==
    f.sheets[CHOOSE k \in 1..Len(f.sheets) : f.sheets[k].name = name].grid

\* raw.empty or raw.isna().all().all()
RawEmpty(raw) ==
    \/ Len(raw) = 0
    \/ \A r \in 1..Len(raw) : \A c \in 1..Len(raw[r]) : IsNa(raw[r][c])

\* raw.iloc[r, c], zero-based as in the source
Cell(raw, r, c) == raw[r + 1][c + 1]

-----------------------------------------------------------------------------
(* Coefficient table *)

\* MinLike without the lower-casing of the column name
MinLikeCaseSensitive(c) == c \in {"minuten", "vorgabe", "termin"}

\* any(x in str(c).lower() for x in ["min", "minute", "vorgabe"])
MinLike(c) == Lower(c) \in {"minuten", "vorgabe", "termin"}

RECURSIVE FirstMinLike(_, _)
FirstMinLike(cols, k) ==
    IF k > Len(cols) THEN NoneCol
    ELSE IF MinLike(cols[k]) THEN cols[k]
    ELSE FirstMinLike(cols, k + 1)

\* lines 27-34: the first matching column, else the second column, else None
MinutesCol(cols) ==
    LET m == FirstMinLike(cols, 1) IN
    IF m = NoneCol /\ Len(cols) > 1 THEN cols[2] ELSE m

ColIndex(cols, name) == CHOOSE k \in 1..Len(cols) : cols[k] = name
HasCol(cols, name) == \E k \in 1..Len(cols) : cols[k] = name

\* lines 36-42: Task -> str, strip, lower
NormalizeTask(c) == Str(Lower(Strip(StrOf(c))))
NormalizeAngaben(a) ==
    LET t == ColIndex(a.cols, "Task") IN
    [cols |-> a.cols,
     rows |-> [r \in 1..Len(a.rows) |->
                 [c \in 1..Len(a.cols) |->
                    IF c = t THEN NormalizeTask(a.rows[r][c]) ELSE a.rows[r][c]]]]

\* lines 44-48: dict(zip(Task, minutes)): the last row of a task wins
DictHas(a, mc, task) ==
    \E r \in 1..Len(a.rows) : a.rows[r][ColIndex(a.cols, "Task")].s = task
DictGet(a, mc, task) ==
    LET t == ColIndex(a.cols, "Task")
        last == CHOOSE r \in 1..Len(a.rows) :
                    /\ a.rows[r][t].s = task
                    /\ \A q \in (r + 1)..Len(a.rows) : a.rows[q][t].s # task
    IN a.rows[last][ColIndex(a.cols, mc)].n

-----------------------------------------------------------------------------
(* Record extraction, lines 88-110 *)

NaT == -1
NaShift == "<NA>"

SHIFT_ORDER == <<"Früh", "Spät", "Nacht">>
ShiftSet == {SHIFT_ORDER[k] : k \in 1..Len(SHIFT_ORDER)}

RECURSIVE Flatten(_)
Flatten(ss) == IF ss = <<>> THEN <<>> ELSE Head(ss) \o Flatten(Tail(ss))

RECURSIVE SumSeq(_)
SumSeq(q) == IF q = <<>> THEN 0 ELSE Head(q) + SumSeq(Tail(q))

\* RowRecords without the test of the date header (line 100 dropped)
RowRecordsNoDateTest(raw, bs, kpi_row) ==
    LET ncols == Len(raw[1])
        kpi_name == Strip(StrOf(Cell(raw, bs + kpi_row, 0)))
    IN IF kpi_name = "" THEN <<>>
       ELSE [col \in 1..(ncols - 1) |->
               [Datum |-> Cell(raw, 0, col),
                Team |-> Cell(raw, bs, col),
                Schicht |-> Cell(raw, bs + 1, col),
                Metric |-> Lower(Strip(kpi_name)),
                Value |-> Cell(raw, bs + kpi_row, col)]]

\* the cells of one metric row: a record per data column whose date is not blank
RowRecords(raw, bs, kpi_row) ==
    LET ncols == Len(raw[1])
        kpi_name == Strip(StrOf(Cell(raw, bs + kpi_row, 0)))
        rec(col) == [Datum |-> Cell(raw, 0, col),
                     Team |-> Cell(raw, bs, col),
                     Schicht |-> Cell(raw, bs + 1, col),
                     Metric |-> Lower(Strip(kpi_name)),
                     Value |-> Cell(raw, bs + kpi_row, col)]
        all == [col \in 1..(ncols - 1) |-> rec(col)]
    IN IF kpi_name = "" THEN <<>>
       ELSE SelectSeq(all, LAMBDA r : ~IsBlank(r.Datum))

\* the records of the block raw[bs:be], for kpi_row in range(2, block.shape[0])
ExtractBlock(raw, bs, be) ==
    Flatten([k \in 1..(be - bs - 2) |-> RowRecords(raw, bs, k + 1)])

-----------------------------------------------------------------------------
(* df_long, lines 117-128 *)

\* ToNumeric with an unparsable cell read as 1
ToNumericOne(c) == IF c.k = "num" THEN c.n ELSE 1

\* pd.to_numeric(..., errors="coerce").fillna(0)
ToNumeric(c) == IF c.k = "num" THEN c.n ELSE 0

\* pd.to_datetime(..., errors="coerce")
ToDatetime(c) == IF c.k = "date" THEN c.n ELSE NaT

BuildLong(recs) ==
    [k \in 1..Len(recs) |->
        [Datum |-> ToDatetime(recs[k].Datum),
         Team |-> recs[k].Team,
         Schicht |-> recs[k].Schicht,
         Metric |-> Lower(Strip(recs[k].Metric)),
         Value |-> ToNumeric(recs[k].Value)]]

-----------------------------------------------------------------------------
(* pivot to wide, lines 130-139 *)

\* sort order of label cells: numbers first, then texts in code-point order
StrRank(s) ==
    CASE s = "A" -> 1
      [] s = "Früh" -> 2
      [] s = "Spät" -> 3
      [] s = "Tag" -> 4
      [] s = "früh " -> 5
      [] OTHER -> 6
CellRank(c) == IF c.k = "num" THEN c.n ELSE 100 + StrRank(c.s)

KeyOf(r) == <<r.Datum, r.Team, r.Schicht>>
KeyLess(a, b) ==
    \/ a[1] < b[1]
    \/ a[1] = b[1] /\ CellRank(a[2]) < CellRank(b[2])
    \/ a[1] = b[1] /\ a[2] = b[2] /\ CellRank(a[3]) < CellRank(b[3])

RECURSIVE SortKeys(_)
SortKeys(S) ==
    IF S = {} THEN <<>>
    ELSE LET m == CHOOSE x \in S : \A y \in S \ {x} : KeyLess(x, y)
         IN <<m>> \o SortKeys(S \ {m})

\* pivot_table drops the rows whose index key holds a missing value
PivotKeys(long) ==
    SortKeys({KeyOf(long[k]) : k \in {j \in 1..Len(long) :
                 /\ long[j].Datum # NaT
                 /\ ~IsNa(long[j].Team)
                 /\ ~IsNa(long[j].Schicht)}})

Matching(long, key, metric) ==
    SelectSeq(long, LAMBDA r : KeyOf(r) = key /\ r.Metric = metric)

\* aggfunc="first": the value of the first record of the group
AggFirst(vals) == Head(vals)

\* the cell of df_wide, with the column missing or the cell empty read as 0 (safe_get)
safe_get(long, key, metric) ==
    LET m == Matching(long, key, metric) IN
    IF m = <<>> THEN 0 ELSE AggFirst([k \in 1..Len(m) |-> m[k].Value])

-----------------------------------------------------------------------------
(* shift summary, lines 141-169 *)

SONSTIGES == "sonstiges / aufräumarbeiten (in std)"
MA_KPIS == <<"vorhandene ma", "benötigte ma", "differenz ma">>
MaKpiSet == {MA_KPIS[k] : k \in 1..Len(MA_KPIS)}

\* the summary columns in the order of their assignment, with their source metrics
Buckets ==
    << [name |-> "sägen", src |-> <<"auftragsrollen gesägt", "abfallrollen gesägt">>],
       [name |-> "rauslegen", src |-> <<"rausgelegte rollen", "säge raus">>],
       [name |-> "richten", src |-> <<"gerichtete rollen", "säge gerichtet">>],
       [name |-> "zusammenfahren", src |-> <<"zusammengefahrene rollen">>],
       [name |-> "verladen", src |-> <<"verladene rollen">>],
       [name |-> "cutten", src |-> <<"cut rollen">>],
       [name |-> "absetzen", src |-> <<"eingelagerte rollen produktion">>],
       [name |-> "absetzen 2", src |-> <<"rollen umgelagert absetzer", "säge eingelagert">>],
       [name |-> "kontrolle dmg/retouren", src |-> <<"damaged bearbeitet", "retouren bearbeitet">>],
       [name |-> "packen paletten liegend", src |-> <<"rollen auf palette liegend (rollenanzahl)">>],
       [name |-> "packen paletten stehend", src |-> <<"rollen auf palette stehend (rollenanzahl)">>],
       [name |-> "souscouche abladen", src |-> <<"souscouche abgeladen (rollen)">>],
       [name |-> "serbien abladen", src |-> <<"entladen serbien">>],
       [name |-> "serbien abladen tautliner", src |-> <<"entladen serbien tautliner">>],
       [name |-> "serbien einlagern", src |-> <<"serbien rollen eingelagert">>],
       [name |-> SONSTIGES, src |-> <<"dafür gebraucht (stunden)">>],
       [name |-> "vorhandene ma", src |-> <<"anzahl ma">>] >>

BucketNames == [k \in 1..Len(Buckets) |-> Buckets[k].name]
SummaryCols == BucketNames \o <<"benötigte ma", "differenz ma">>

\* BucketValue with the first source metric only
BucketValueFirstSource(long, key, b) == safe_get(long, key, b.src[1])

\* lines 144-160: a summary column is the sum of its source columns of df_wide
BucketValue(long, key, b) ==
    SumSeq([k \in 1..Len(b.src) |-> safe_get(long, key, b.src[k])])

\* round to the nearest integer, ties to even (numpy's round), for a >= 0, d > 0
RoundDiv(a, d) ==
    LET q == a \div d
        r == a % d
    IN IF 2 * r < d THEN q
       ELSE IF 2 * r > d THEN q + 1
       ELSE IF q % 2 = 0 THEN q ELSE q + 1

\* (total_hours / 7.5).round(1) in tenths, from the workload in minutes:
\* 10 * (minutes / 60) / 7.5 = minutes / 45
StaffTenths(minutes) == RoundDiv(minutes, 45)

\* lines 163-166: the buckets that have a dictionary entry, weighted by it
WorkloadMinutes(bv, a, mc) ==
    SumSeq([k \in 1..Len(Buckets) |->
               IF DictHas(a, mc, Buckets[k].name)
               THEN bv[k] * DictGet(a, mc, Buckets[k].name)
               ELSE 0])

\* SummaryRow with 'differenz ma' taken from the staff present alone
SummaryRowNoRequired(long, key, a, mc) ==
    LET bv == [k \in 1..Len(Buckets) |-> BucketValue(long, key, Buckets[k])]
        sonst == bv[Len(Buckets) - 1]
        vorh == bv[Len(Buckets)]
        ben == StaffTenths(WorkloadMinutes(bv, a, mc) + 60 * sonst)
    IN [Datum |-> key[1], Team |-> key[2], Schicht |-> key[3],
        vals |-> bv \o <<ben, 10 * vorh>>]

\* one row of summary_df; 'benötigte ma' and 'differenz ma' are in tenths
SummaryRow(long, key, a, mc) ==
    LET bv == [k \in 1..Len(Buckets) |-> BucketValue(long, key, Buckets[k])]
        sonst == bv[Len(Buckets) - 1]
        vorh == bv[Len(Buckets)]
        ben == StaffTenths(WorkloadMinutes(bv, a, mc) + 60 * sonst)
    IN [Datum |-> key[1], Team |-> key[2], Schicht |-> key[3],
        vals |-> bv \o <<ben, 10 * vorh - ben>>]

BuildSummary(long, a, mc) ==
    LET keys == PivotKeys(long) IN
    [k \in 1..Len(keys) |-> SummaryRow(long, keys[k], a, mc)]

-----------------------------------------------------------------------------
(* melt, lines 171-184 *)

\* str.title() on the shift labels that occur in the model
Title(s) ==
    CASE s = "früh" -> "Früh"
      [] s = "schicht" -> "Schicht"
      [] OTHER -> s

\* astype(str).str.strip().str.title(), then Categorical(categories=SHIFT_ORDER)
NormalizeSchicht(c) ==
    LET t == Title(Strip(StrOf(c))) IN
    IF t \in ShiftSet THEN t ELSE NaShift

\* melt: column by column, the rows of summary_df in their order
Melt(summary) ==
    Flatten([c \in 1..Len(SummaryCols) |->
               [k \in 1..Len(summary) |->
                   [Datum |-> summary[k].Datum,
                    Schicht |-> NormalizeSchicht(summary[k].Schicht),
                    Team |-> summary[k].Team,
                    Metric |-> SummaryCols[c],
                    Value |-> summary[k].vals[c]]]])

-----------------------------------------------------------------------------
(* Tables: an index (rows), columns, and a value for every (row, column) *)

Range(q) == {q[k] : k \in 1..Len(q)}

RECURSIVE SortInts(_)
SortInts(S) ==
    IF S = {} THEN <<>>
    ELSE LET m == CHOOSE x \in S : \A y \in S : x <= y
         IN <<m>> \o SortInts(S \ {m})

SumValues(rows) == SumSeq([k \in 1..Len(rows) |-> rows[k].Value])

Table(index, columns, val) ==
    [index |-> index, columns |-> columns,
     val |-> [p \in Range(index) \X Range(columns) |-> val[p]]]

\* df.reindex(index).fillna(0)
ReindexRows(t, index) ==
    Table(index, t.columns,
          [r \in Range(index), c \in Range(t.columns) |->
              IF r \in Range(t.index) THEN t.val[<<r, c>>] ELSE 0])

\* ReindexCols that leaves the columns as they are
ReindexColsKept(t, columns) == t

\* df.reindex(columns=columns).fillna(0)
ReindexCols(t, columns) ==
    Table(t.index, columns,
          [r \in Range(t.index), c \in Range(columns) |->
              IF c \in Range(t.columns) THEN t.val[<<r, c>>] ELSE 0])

Series(index, val) == [index |-> index, val |-> [r \in Range(index) |-> val[r]]]

\* s.reindex(index).fillna(0)
ReindexSeries(sr, index) ==
    Series(index, [r \in Range(index) |->
                      IF r \in Range(sr.index) THEN sr.val[r] ELSE 0])

RowSum(t, r) == SumSeq([k \in 1..Len(t.columns) |-> t.val[<<r, t.columns[k]>>]])
ColSum(t, c) == SumSeq([k \in 1..Len(t.index) |-> t.val[<<t.index[k], c>>]])

\* groupby(["Datum", "Schicht"], observed=False)["Value"].sum().unstack("Schicht"):
\* rows whose shift is missing are left out of the groups; every category is a column
GroupDayShift(rows) ==
    LET valid == SelectSeq(rows, LAMBDA r : r.Schicht # NaShift)
        days == SortInts({valid[k].Datum : k \in 1..Len(valid)})
        cols == IF valid = <<>> THEN <<>> ELSE SHIFT_ORDER
    IN Table(days, cols,
             [d \in Range(days), sh \in Range(cols) |->
                 SumValues(SelectSeq(valid,
                               LAMBDA r : r.Datum = d /\ r.Schicht = sh))])

\* groupby("Datum")["Value"].sum()
GroupDay(rows) ==
    LET days == SortInts({rows[k].Datum : k \in 1..Len(rows)})
    IN Series(days, [d \in Range(days) |->
                        SumValues(SelectSeq(rows, LAMBDA r : r.Datum = d))])

\* _reindex_shift
reindex_shift(t, weekdays) == ReindexRows(ReindexCols(t, SHIFT_ORDER), weekdays)

-----------------------------------------------------------------------------
(* aggregate_weekly *)

MAIN_TASKS == <<"absetzen", "richten", "verladen", "zusammenfahren">>
TASK_ORDER == <<"Absetzen", "Richten", "Verladen", "Zusammenfahren", "Sonstige">>

\* target_date.weekday(), day 0 being a Monday
weekday(d) == d % 7

start_of_week(t) == t - weekday(t)
end_of_week(t) == start_of_week(t) + 6
all_dates(t) == [k \in 1..(end_of_week(t) - start_of_week(t) + 1) |-> start_of_week(t) + k - 1]

\* Weekdays with the Saturday kept (weekday < 6)
WeekdaysWithSaturday(t) == SelectSeq(all_dates(t), LAMBDA d : weekday(d) < 6)

\* all_dates[all_dates.weekday < 5]
Weekdays(t) == SelectSeq(all_dates(t), LAMBDA d : weekday(d) < 5)

\* WeekRows without the restriction to the weekdays (line 44 dropped)
WeekRowsAllSeven(tidy, t) ==
    SelectSeq(tidy, LAMBDA r : r.Datum >= start_of_week(t) /\ r.Datum <= end_of_week(t))

\* lines 43-44
WeekRows(tidy, t) ==
    SelectSeq(tidy, LAMBDA r :
        /\ r.Datum >= start_of_week(t) /\ r.Datum <= end_of_week(t)
        /\ r.Datum \in Range(Weekdays(t)))

\* StartsWith as a comparison of the whole name
StartsWithExact(m, prefix) == m = prefix

\* m.startswith(prefix) on the metric names of the tidy table
StartsWith(m, prefix) ==
    CASE prefix = "absetzen" -> m \in {"absetzen", "absetzen 2"}
      [] prefix = "richten" -> m = "richten"
      [] prefix = "verladen" -> m = "verladen"
      [] prefix = "zusammenfahren" -> m = "zusammenfahren"
      [] OTHER -> FALSE

classify_task(metric) ==
    LET m == Lower(Strip(metric)) IN
    IF StartsWith(m, "absetzen") THEN "Absetzen"
    ELSE IF StartsWith(m, "richten") THEN "Richten"
    ELSE IF StartsWith(m, "verladen") THEN "Verladen"
    ELSE IF StartsWith(m, "zusammenfahren") THEN "Zusammenfahren"
    ELSE "Sonstige"

\* Rolls with the staffing KPIs kept
RollsKeepingStaff(df) ==
    SelectSeq(df, LAMBDA r : Lower(Strip(r.Metric)) # SONSTIGES)

\* lines 73-76: neither a staffing KPI nor the hours-only cleanup metric
Rolls(df) ==
    SelectSeq(df, LAMBDA r : r.Metric \notin MaKpiSet /\ Lower(Strip(r.Metric)) # SONSTIGES)

\* the task groups in the sort order of a groupby
GroupsSorted == <<"Absetzen", "Richten", "Sonstige", "Verladen", "Zusammenfahren">>

\* groupby(["Datum", "TaskGroup"])["Value"].sum().unstack("TaskGroup")
GroupDayTask(rows) ==
    LET days == SortInts({rows[k].Datum : k \in 1..Len(rows)})
        seen == {classify_task(rows[k].Metric) : k \in 1..Len(rows)}
        cols == SelectSeq(GroupsSorted, LAMBDA g : g \in seen)
    IN Table(days, cols,
             [d \in Range(days), g \in Range(cols) |->
                 SumValues(SelectSeq(rows,
                     LAMBDA r : r.Datum = d /\ classify_task(r.Metric) = g))])

\* Metric.str.contains("sägen", case=False)
ContainsSaegen(m) == m = "sägen"

IsVorhandene(r) == Lower(Strip(r.Metric)) = "vorhandene ma"

EmptyResult == [empty |-> TRUE]

aggregate_weekly(tidy, t) ==
    LET weekdays == Weekdays(t)
        df == WeekRows(tidy, t)
        rolls == Rolls(df)
        ma == SelectSeq(df, IsVorhandene)
    IN IF df = <<>> THEN EmptyResult
       ELSE [empty |-> FALSE,
             dates |-> weekdays,
             kw |-> start_of_week(t) \div 7 + 1,
             saegen_by_day_shift |->
                 reindex_shift(GroupDayShift(SelectSeq(df, LAMBDA r : ContainsSaegen(r.Metric))),
                               weekdays),
             total_rolls_by_group |->
                 ReindexRows(ReindexCols(GroupDayTask(rolls), TASK_ORDER), weekdays),
             total_shift |-> reindex_shift(GroupDayShift(rolls), weekdays),
             workers_per_shift |-> ReindexCols(ReindexRows(GroupDayShift(ma), weekdays), SHIFT_ORDER),
             workers_per_day |-> ReindexSeries(GroupDay(ma), weekdays),
             total_rolls_per_day |-> ReindexSeries(GroupDay(rolls), weekdays),
             ma_by_shift |-> reindex_shift(GroupDayShift(ma), weekdays)]

-----------------------------------------------------------------------------
(* aggregate_daily *)

\* the metric names of the tidy tables in the sort order of a groupby
MetricsSorted ==
    << "Verladen", "absetzen", "absetzen 2", "benötigte ma", "cutten", "differenz ma",
       "kontrolle dmg/retouren", "packen paletten liegend", "packen paletten stehend",
       "rauslegen", "richten", "serbien abladen", "serbien abladen tautliner",
       "serbien einlagern", SONSTIGES, "souscouche abladen", "sägen", "verladen",
       "vorhandene ma", "zusammenfahren" >>

\* Metric.str.title() on the metric names of the tidy table
TitleOf(m) ==
    CASE m = "absetzen" -> "Absetzen"
      [] m = "absetzen 2" -> "Absetzen 2"
      [] m = "benötigte ma" -> "Benötigte Ma"
      [] m = "cutten" -> "Cutten"
      [] m = "differenz ma" -> "Differenz Ma"
      [] m = "kontrolle dmg/retouren" -> "Kontrolle Dmg/Retouren"
      [] m = "packen paletten liegend" -> "Packen Paletten Liegend"
      [] m = "packen paletten stehend" -> "Packen Paletten Stehend"
      [] m = "rauslegen" -> "Rauslegen"
      [] m = "richten" -> "Richten"
      [] m = "serbien abladen" -> "Serbien Abladen"
      [] m = "serbien abladen tautliner" -> "Serbien Abladen Tautliner"
      [] m = "serbien einlagern" -> "Serbien Einlagern"
      [] m = SONSTIGES -> "Sonstiges / Aufräumarbeiten (In Std)"
      [] m = "souscouche abladen" -> "Souscouche Abladen"
      [] m = "sägen" -> "Sägen"
      [] m = "verladen" -> "Verladen"
      [] m = "vorhandene ma" -> "Vorhandene Ma"
      [] m = "zusammenfahren" -> "Zusammenfahren"
      [] OTHER -> m

\* lines 183-191: the label of a row: the Pretty column of Angaben when there is
\* one, else the title-cased metric; the cleanup metric is "Sonstiges" in both cases
Pretty(row, a) ==
    IF Lower(Strip(row.Metric)) = SONSTIGES THEN "Sonstiges"
    ELSE IF HasCol(a.cols, "Pretty") THEN row.pretty
    ELSE TitleOf(row.Metric)

\* the labels in the sort order of groupby("Pretty")
PrettySorted ==
    << "Absetzen", "Absetzen 2", "Benötigte Ma", "Cutten", "Differenz Ma",
       "Kontrolle Dmg/Retouren", "Packen Paletten Liegend", "Packen Paletten Stehend",
       "Rauslegen", "Richten", "Serbien Abladen", "Serbien Abladen Tautliner",
       "Serbien Einlagern", "Sonstiges", "Souscouche Abladen", "Sägen", "Verladen",
       "Vorhandene Ma", "Zusammenfahren" >>

\* lines 147-152: the rows of the target day
DayRows(tidy, day) == SelectSeq(tidy, LAMBDA r : r.Datum = day)

\* line 157: groupby(["Schicht", "Metric"], observed=False)["Value"].sum().reset_index():
\* every shift category with every metric seen in a row that has a shift
ShiftTaskRolls(df) ==
    LET valid == SelectSeq(df, LAMBDA r : r.Schicht # NaShift)
        seen == SelectSeq(MetricsSorted,
                          LAMBDA m : \E k \in 1..Len(valid) : valid[k].Metric = m)
    IN Flatten([sh \in 1..Len(SHIFT_ORDER) |->
                  [k \in 1..Len(seen) |->
                     [Schicht |-> SHIFT_ORDER[sh],
                      Metric |-> seen[k],
                      Value |-> SumValues(SelectSeq(valid,
                                    LAMBDA r : r.Schicht = SHIFT_ORDER[sh]
                                               /\ r.Metric = seen[k]))]]])

\* a missing label
NaPretty == "<NA>"

\* lines 159-166: left join on Metric = Task; a row without a partner is kept with
\* the columns of Angaben missing, a row with several partners is repeated once per
\* partner
MergeRow(row, a, mc) ==
    LET t == ColIndex(a.cols, "Task")
        hit == SelectSeq(a.rows, LAMBDA ar : ar[t].s = row.Metric)
    IN IF hit = <<>>
       THEN << [Schicht |-> row.Schicht, Metric |-> row.Metric, Value |-> row.Value,
                matched |-> FALSE, minutes |-> 0, pretty |-> NaPretty] >>
       ELSE [k \in 1..Len(hit) |->
               [Schicht |-> row.Schicht, Metric |-> row.Metric, Value |-> row.Value,
                matched |-> TRUE,
                minutes |-> IF mc # NoneCol /\ HasCol(a.cols, mc)
                            THEN hit[k][ColIndex(a.cols, mc)].n ELSE 0,
                pretty |-> IF HasCol(a.cols, "Pretty")
                           THEN hit[k][ColIndex(a.cols, "Pretty")].s ELSE NaPretty]]

Merge(left, a, mc) == Flatten([k \in 1..Len(left) |-> MergeRow(left[k], a, mc)])

\* lines 168-191: Hours (kept in minutes), the cleanup metric moved from Value to Hours
WithHours(row, a, mc) ==
    LET sonst == Lower(Strip(row.Metric)) = SONSTIGES
        hours == IF mc # NoneCol /\ HasCol(a.cols, mc) /\ row.matched
                 THEN row.Value * row.minutes
                 ELSE 0
    IN [Schicht |-> row.Schicht,
        Metric |-> row.Metric,
        matched |-> row.matched,
        Hours |-> IF sonst THEN 60 * row.Value ELSE hours,
        Value |-> IF sonst THEN 0 ELSE row.Value,
        Pretty |-> Pretty(row, a)]

ShiftTaskMerged(df, a, mc) ==
    LET m == Merge(ShiftTaskRolls(df), a, mc) IN
    [k \in 1..Len(m) |-> WithHours(m[k], a, mc)]

\* lines 194-196
TasksDf(merged) == SelectSeq(merged, LAMBDA r : Lower(Strip(r.Metric)) \notin MaKpiSet)

SumHours(rows) == SumSeq([k \in 1..Len(rows) |-> rows[k].Hours])

OfTask(rows, p) == SelectSeq(rows, LAMBDA r : r.Pretty = p)

\* NonzeroTasks with the label "Verladen" exempt from the filter on the sums
NonzeroTasksKeepingVerladen(tasks) ==
    SelectSeq(PrettySorted, LAMBDA p :
        /\ OfTask(tasks, p) # <<>>
        /\ \/ SumValues(OfTask(tasks, p)) # 0
           \/ SumHours(OfTask(tasks, p)) # 0
           \/ p = "Verladen")

\* lines 199-202: the labels whose Value sum or Hours sum is not zero
NonzeroTasks(tasks) ==
    SelectSeq(PrettySorted, LAMBDA p :
        /\ OfTask(tasks, p) # <<>>
        /\ \/ SumValues(OfTask(tasks, p)) # 0
           \/ SumHours(OfTask(tasks, p)) # 0)

\* the orders of the labels q by descending Value total
DescOrders(q, tasks) ==
    {o \in [1..Len(q) -> Range(q)] :
        /\ \A j, k \in 1..Len(q) : j # k => o[j] # o[k]
        /\ \A j \in 1..(Len(q) - 1) :
              SumValues(OfTask(tasks, o[j])) >= SumValues(OfTask(tasks, o[j + 1]))}

\* line 203: sort_values("Value", ascending=False).index; the default sort kind is
\* quicksort, which does not fix the order of labels with equal totals
TaskOrders(tasks) == DescOrders(NonzeroTasks(tasks), tasks)

\* lines 208-234: pivot_table(index="Pretty", columns="Schicht", aggfunc="sum"),
\* reindexed to task_order and SHIFT_ORDER
HoursPivot(tasks, order) ==
    Table(order, SHIFT_ORDER,
          [p \in Range(order), sh \in Range(SHIFT_ORDER) |->
              SumHours(SelectSeq(tasks,
                           LAMBDA r : r.Pretty = p /\ r.Schicht = sh))])

\* RollsPivot without reindex(task_order): the labels in the order of the pivot
RollsPivotSorted(tasks, order) ==
    Table(SelectSeq(PrettySorted, LAMBDA p : p \in Range(order)), SHIFT_ORDER,
          [p \in Range(order), sh \in Range(SHIFT_ORDER) |->
              SumValues(SelectSeq(tasks,
                            LAMBDA r : r.Pretty = p /\ r.Schicht = sh))])

RollsPivot(tasks, order) ==
    Table(order, SHIFT_ORDER,
          [p \in Range(order), sh \in Range(SHIFT_ORDER) |->
              SumValues(SelectSeq(tasks,
                            LAMBDA r : r.Pretty = p /\ r.Schicht = sh))])

\* the results that aggregate_daily can return, one per outcome of the sort
aggregate_daily(tidy, a, day, mc) ==
    LET df == DayRows(tidy, day)
        merged == ShiftTaskMerged(df, a, mc)
    IN IF df = <<>> THEN {EmptyResult}
       ELSE {[empty |-> FALSE,
              shift_task_merged |-> merged,
              hours_pivot |-> HoursPivot(SelectSeq(TasksDf(merged),
                                  LAMBDA r : r.Pretty \in Range(order)), order),
              rolls_pivot |-> RollsPivot(SelectSeq(TasksDf(merged),
                                  LAMBDA r : r.Pretty \in Range(order)), order)] :
                order \in TaskOrders(TasksDf(merged))}

-----------------------------------------------------------------------------
(* load_excel as a step machine *)

NoRequest == [mode |-> "none", target |-> 0, result |-> EmptyResult]

Init ==
    /\ file \in Workbooks
    /\ pc = "start"
    /\ month = 1
    /\ i = 0
    /\ block_start = 0
    /\ records = <<>>
    /\ blocks = <<>>
    /\ angaben_df = EmptyFrame
    /\ minutes_col = NoneCol
    /\ df_long = <<>>
    /\ summary_long = <<>>
    /\ failed = FALSE
    /\ request = NoRequest

\* the sheet being scanned
Raw == read_excel(file, months[month])

\* Raise with the coefficient table and the column name kept as they were loaded
RaiseKeepingAngaben ==
    /\ pc' = "returned"
    /\ failed' = TRUE
    /\ df_long' = <<>>
    /\ summary_long' = <<>>
    /\ UNCHANGED <<angaben_df, minutes_col>>

\* lines 188-190: any exception ends the load with empty structures
Raise ==
    /\ pc' = "returned"
    /\ failed' = TRUE
    /\ df_long' = <<>>
    /\ summary_long' = <<>>
    /\ angaben_df' = EmptyFrame
    /\ minutes_col' = NoneCol

\* lines 22-48: read Angaben, find the minutes column, normalise Task, build the dictionary
LoadAngaben ==
    /\ pc = "start"
    /\ LET mc == MinutesCol(file.angaben.cols) IN
       IF ~HasCol(file.angaben.cols, "Task") \/ mc = NoneCol
       THEN Raise /\ UNCHANGED <<month>>
       ELSE /\ angaben_df' = NormalizeAngaben(file.angaben)
            /\ minutes_col' = mc
            /\ pc' = "months"
            /\ month' = 1
            /\ UNCHANGED <<df_long, summary_long, failed>>
    /\ UNCHANGED <<file, i, block_start, records, blocks, request>>

\* lines 55-63: a month without a sheet, or with an empty sheet, is passed over
SkipMonth ==
    /\ pc = "months"
    /\ month <= Len(months)
    /\ IF months[month] \in sheet_names(file) THEN RawEmpty(Raw) ELSE TRUE
    /\ month' = month + 1
    /\ UNCHANGED <<file, pc, i, block_start, records, blocks, angaben_df,
                   minutes_col, df_long, summary_long, failed, request>>

\* lines 65-71: the scan of a month sheet starts below the date header
OpenMonth ==
    /\ pc = "months"
    /\ month <= Len(months)
    /\ months[month] \in sheet_names(file)
    /\ ~RawEmpty(Raw)
    /\ i' = 1
    /\ pc' = "seek"
    /\ UNCHANGED <<file, month, block_start, records, blocks, angaben_df,
                   minutes_col, df_long, summary_long, failed, request>>

\* SkipBlank without the increment of line 74
SkipBlankStuck ==
    /\ pc = "seek"
    /\ i < Len(Raw)
    /\ IsBlank(Cell(Raw, i, 0))
    /\ i' = i
    /\ UNCHANGED <<file, pc, month, block_start, records, blocks, angaben_df,
                   minutes_col, df_long, summary_long, failed, request>>

\* lines 73-74: a blank first cell is a separator
SkipBlank ==
    /\ pc = "seek"
    /\ i < Len(Raw)
    /\ IsBlank(Cell(Raw, i, 0))
    /\ i' = i + 1
    /\ UNCHANGED <<file, pc, month, block_start, records, blocks, angaben_df,
                   minutes_col, df_long, summary_long, failed, request>>

\* lines 72, 75-76: the rows are used up, the sheet is done
EndSheet ==
    /\ pc = "seek"
    /\ i >= Len(Raw)
    /\ pc' = "months"
    /\ month' = month + 1
    /\ UNCHANGED <<file, i, block_start, records, blocks, angaben_df,
                   minutes_col, df_long, summary_long, failed, request>>

\* lines 78-79: a non-blank first cell opens a block
StartBlock ==
    /\ pc = "seek"
    /\ i < Len(Raw)
    /\ ~IsBlank(Cell(Raw, i, 0))
    /\ block_start' = i
    /\ i' = i + 1
    /\ pc' = "inblock"
    /\ UNCHANGED <<file, month, records, blocks, angaben_df,
                   minutes_col, df_long, summary_long, failed, request>>

\* lines 80-81: the block runs on while the first cell is not blank
ExtendBlock ==
    /\ pc = "inblock"
    /\ i < Len(Raw)
    /\ ~IsBlank(Cell(Raw, i, 0))
    /\ i' = i + 1
    /\ UNCHANGED <<file, pc, month, block_start, records, blocks, angaben_df,
                   minutes_col, df_long, summary_long, failed, request>>

\* lines 82-111: the block is cut at i and its records are extracted;
\* block.iloc[1, 1:] raises IndexError on a block of one row
CloseBlock ==
    /\ pc = "inblock"
    /\ IF i < Len(Raw) THEN IsBlank(Cell(Raw, i, 0)) ELSE TRUE
    /\ IF i - block_start < 2
       THEN /\ Raise
            /\ blocks' = Append(blocks, [month |-> month, start |-> block_start,
                                         end |-> i, recs |-> <<>>])
            /\ UNCHANGED <<i, records>>
       ELSE LET new == ExtractBlock(Raw, block_start, i) IN
            /\ records' = records \o new
            /\ blocks' = Append(blocks, [month |-> month, start |-> block_start,
                                         end |-> i, recs |-> new])
            /\ i' = i + 1
            /\ pc' = "seek"
            /\ UNCHANGED <<angaben_df, minutes_col, df_long, summary_long, failed>>
    /\ UNCHANGED <<file, month, block_start, request>>

\* lines 113-186: no records, or df_long and the tidy summary
Finish ==
    /\ pc = "months"
    /\ month > Len(months)
    /\ pc' = "returned"
    /\ IF records = <<>>
       THEN /\ df_long' = <<>>
            /\ summary_long' = <<>>
       ELSE /\ df_long' = BuildLong(records)
            /\ summary_long' = Melt(BuildSummary(BuildLong(records), angaben_df, minutes_col))
    /\ UNCHANGED <<file, month, i, block_start, records, blocks, angaben_df,
                   minutes_col, failed, request>>

load_excel ==
    \/ LoadAngaben
    \/ SkipMonth
    \/ OpenMonth
    \/ SkipBlank
    \/ EndSheet
    \/ StartBlock
    \/ ExtendBlock
    \/ CloseBlock
    \/ Finish

\* the tidy table in the hands of the caller, who asks for nothing on an empty load;
\* a request reads the loaded tables only, so one request per load reaches every result
Loaded == pc = "returned" /\ summary_long # <<>> /\ request.mode = "none"

WeeklyRequest ==
    /\ Loaded
    /\ \E t \in 0..MaxDay :
          request' = [mode |-> "weekly", target |-> t,
                      result |-> aggregate_weekly(summary_long, t)]
    /\ UNCHANGED <<file, pc, month, i, block_start, records, blocks, angaben_df,
                   minutes_col, df_long, summary_long, failed>>

DailyRequest ==
    /\ Loaded
    /\ \E t \in 0..MaxDay :
          \E res \in aggregate_daily(summary_long, angaben_df, t, minutes_col) :
              request' = [mode |-> "daily", target |-> t, result |-> res]
    /\ UNCHANGED <<file, pc, month, i, block_start, records, blocks, angaben_df,
                   minutes_col, df_long, summary_long, failed>>

Next == load_excel \/ WeeklyRequest \/ DailyRequest

Spec == Init /\ [][Next]_vars

\* the steps of the block scan of one sheet, lines 71-111
Scan == SkipBlank \/ EndSheet \/ StartBlock \/ ExtendBlock \/ CloseBlock

\* the scan is sequential code: a step that can be taken is taken
ScanSpec == Spec /\ WF_vars(Scan)

-----------------------------------------------------------------------------
(* The aggregators on a tidy table of any caller *)

\* tidy tables whose Datum and Value columns hold cells of any kind
TableRows ==
    [Datum : {Date(1), Null},
     Schicht : {"Früh", "Nacht"},
     Team : {Str("A")},
     Metric : {"sägen", "absetzen 2", "Verladen", "vorhandene ma", SONSTIGES},
     Value : {Num(2), Str("x"), Null}]
InputTables == SeqsUpTo(TableRows, MaxTableRows)

InitTable ==
    /\ file = [sheets |-> <<>>, angaben |-> AngabenOne]
    /\ pc = "table"
    /\ month = 1
    /\ i = 0
    /\ block_start = 0
    /\ records = <<>>
    /\ blocks = <<>>
    /\ angaben_df = NormalizeAngaben(AngabenOne)
    /\ minutes_col = MinutesCol(AngabenOne.cols)
    /\ df_long = <<>>
    /\ summary_long \in InputTables
    /\ failed = FALSE
    /\ request = NoRequest

\* aggregation.py lines 39-41 and 149-151: the aggregator works on a copy of its input
\* with Datum coerced to a date and Value to a number, 0 where it is not one
Coerced(table) ==
    [k \in 1..Len(table) |->
        [table[k] EXCEPT !.Datum = ToDatetime(@), !.Value = ToNumeric(@)]]

\* WeeklyOnTable without the copy of line 39: the coercions of lines 40-41 are written
\* into the table of the caller
WeeklyOnTableInPlace ==
    /\ pc = "table"
    /\ request.mode = "none"
    /\ \E t \in 0..MaxDay :
          request' = [mode |-> "weekly", target |-> t,
                      result |-> aggregate_weekly(Coerced(summary_long), t)]
    /\ summary_long' = [k \in 1..Len(summary_long) |->
                           [summary_long[k] EXCEPT
                               !.Value = Num(ToNumeric(@)),
                               !.Datum = IF @.k = "date" THEN @ ELSE Null]]
    /\ UNCHANGED <<file, pc, month, i, block_start, records, blocks, angaben_df,
                   minutes_col, df_long, failed>>

WeeklyOnTable ==
    /\ pc = "table"
    /\ request.mode = "none"
    /\ \E t \in 0..MaxDay :
          request' = [mode |-> "weekly", target |-> t,
                      result |-> aggregate_weekly(Coerced(summary_long), t)]
    /\ UNCHANGED <<file, pc, month, i, block_start, records, blocks, angaben_df,
                   minutes_col, df_long, summary_long, failed>>

DailyOnTable ==
    /\ pc = "table"
    /\ request.mode = "none"
    /\ \E t \in 0..MaxDay :
          \E res \in aggregate_daily(Coerced(summary_long), angaben_df, t, minutes_col) :
              request' = [mode |-> "daily", target |-> t, result |-> res]
    /\ UNCHANGED <<file, pc, month, i, block_start, records, blocks, angaben_df,
                   minutes_col, df_long, summary_long, failed>>

NextTable == Next \/ WeeklyOnTable \/ DailyOnTable

\* load_excel with its requests, and the aggregators called on tables of their own
TableSpec == (Init \/ InitTable) /\ [][NextTable]_vars

-----------------------------------------------------------------------------
(* Properties *)

Returned == pc = "returned"
Weekly == request.mode = "weekly"
Daily == request.mode = "daily"
Result == request.result

\* the month sheets that load_excel reads
ReadMonths ==
    {m \in 1..Len(months) :
        IF months[m] \in sheet_names(file) THEN ~RawEmpty(read_excel(file, months[m])) ELSE FALSE}
RawOf(m) == read_excel(file, months[m])

\* the maximal runs [s, e) of rows with index >= 1 whose first cell is not blank
IsRun(raw, s, e) ==
    /\ 1 <= s /\ s < e /\ e <= Len(raw)
    /\ \A r \in s..(e - 1) : ~IsBlank(Cell(raw, r, 0))
    /\ s > 1 => IsBlank(Cell(raw, s - 1, 0))
    /\ e < Len(raw) => IsBlank(Cell(raw, e, 0))
Runs(raw) == {p \in (1..Len(raw)) \X (1..Len(raw)) : IsRun(raw, p[1], p[2])}

RECURSIVE RunSeq(_)
RunSeq(S) ==
    IF S = {} THEN <<>>
    ELSE LET m == CHOOSE x \in S : \A y \in S : x[1] <= y[1]
         IN <<m>> \o RunSeq(S \ {m})

\* the summary rows behind the tidy table, in its order
Keys == PivotKeys(df_long)
TidyAt(c, k) == summary_long[(c - 1) * Len(Keys) + k]

\* C1: in every shift summary row each bucket is the sum, over its source metrics, of
\* the values of all records of that (date, team, shift, metric), duplicates included
C1_DuplicatesSummed ==
    (Returned /\ ~failed /\ summary_long # <<>>) =>
        \A c \in 1..Len(Buckets) : \A k \in 1..Len(Keys) :
            TidyAt(c, k).Value =
                SumSeq([j \in 1..Len(Buckets[c].src) |->
                          SumValues(Matching(df_long, Keys[k], Buckets[c].src[j]))])

\* the records of the blocks of at least two rows of all month sheets
RECURSIVE RecordsOfRuns(_, _)
RecordsOfRuns(raw, q) ==
    IF q = <<>> THEN <<>>
    ELSE (IF Head(q)[2] - Head(q)[1] >= 2
          THEN ExtractBlock(raw, Head(q)[1], Head(q)[2]) ELSE <<>>)
         \o RecordsOfRuns(raw, Tail(q))
WellFormedRecords ==
    Flatten([m \in 1..Len(months) |->
               IF m \in ReadMonths THEN RecordsOfRuns(RawOf(m), RunSeq(Runs(RawOf(m))))
               ELSE <<>>])

\* the Angaben sheet lets the load reach the month sheets
AngabenReadable ==
    HasCol(file.angaben.cols, "Task") /\ MinutesCol(file.angaben.cols) # NoneCol

\* C2: a malformed block is passed over: the load returns the records of all the
\* well-formed blocks of all the month sheets
C2_MalformedBlockSkipped ==
    (Returned /\ AngabenReadable) => df_long = BuildLong(WellFormedRecords)

\* C3: the cleanup task, when among the rows of the target day, has a row in the
\* Hours pivot
C3_CleanupRetained ==
    (Daily /\ ~Result.empty) =>
        ((\E k \in 1..Len(summary_long) :
             summary_long[k].Datum = request.target /\ summary_long[k].Metric = SONSTIGES)
         => "Sonstiges" \in Range(Result.hours_pivot.index))

\* C4: on every weekday the task groups and the shifts add up to the same total
C4_GroupsEqualShifts ==
    (Weekly /\ ~Result.empty) =>
        \A k \in 1..Len(Result.dates) :
            RowSum(Result.total_rolls_by_group, Result.dates[k])
                = RowSum(Result.total_shift, Result.dates[k])

\* the tidy rows of 'benötigte ma' of a day and shift: one per shift summary row
RequiredRows(day, sh) ==
    SelectSeq(summary_long, LAMBDA r :
        r.Metric = "benötigte ma" /\ r.Datum = day /\ r.Schicht = sh)

\* C5: for a day and shift with exactly one shift summary row, the Hours of the shift
\* in the daily pivot, over 7.5 and rounded to one decimal, are the row's 'benötigte ma'
C5_RequiredStaffConsistent ==
    (Daily /\ ~Result.empty) =>
        \A sh \in ShiftSet :
            Len(RequiredRows(request.target, sh)) = 1 =>
                StaffTenths(ColSum(Result.hours_pivot, sh))
                    = RequiredRows(request.target, sh)[1].Value

\* the data columns of a sheet whose date header is not blank
DatedCols(raw) == {c \in 1..(Len(raw[1]) - 1) : ~IsBlank(Cell(raw, 0, c))}

\* C6: a block of at least two rows yields (metric rows) x (dated columns) records,
\* one for each cell of a metric row under a non-blank date and none under a blank one
C6_RecordCount ==
    \A b \in 1..Len(blocks) :
        LET blk == blocks[b]
            raw == RawOf(blk.month)
        IN blk.end - blk.start >= 2 =>
            /\ Len(blk.recs) = (blk.end - blk.start - 2) * Cardinality(DatedCols(raw))
            /\ \A j \in 1..Len(blk.recs) : ~IsBlank(blk.recs[j].Datum)
            /\ \A r \in (blk.start + 2)..(blk.end - 1) : \A c \in DatedCols(raw) :
                  \E j \in 1..Len(blk.recs) :
                      /\ blk.recs[j].Datum = Cell(raw, 0, c)
                      /\ blk.recs[j].Value = Cell(raw, r, c)
                      /\ blk.recs[j].Metric = Lower(Strip(Cell(raw, r, 0).s))

\* C6 witness: a block with a metric row was extracted from a sheet that has a dated
\* and an undated column
C6_Witness ==
    \E b \in 1..Len(blocks) :
        /\ blocks[b].end - blocks[b].start >= 3
        /\ Cardinality(DatedCols(RawOf(blocks[b].month))) = 1
        /\ Len(blocks[b].recs) = blocks[b].end - blocks[b].start - 2

BlocksOf(m) ==
    LET q == SelectSeq(blocks, LAMBDA b : b.month = m) IN
    [k \in 1..Len(q) |-> <<q[k].start, q[k].end>>]

\* C7: the blocks cut from every month sheet are its maximal runs of non-blank rows,
\* in ascending order
C7_BlocksAreMaximalRuns ==
    (Returned /\ AngabenReadable) =>
        \A m \in ReadMonths : BlocksOf(m) = RunSeq(Runs(RawOf(m)))

\* the Monday of the week of day t
MondayOf(t) == CHOOSE m \in 0..t : m % 7 = 0 /\ t - m < 7
MonToFri(t) == [k \in 1..5 |-> MondayOf(t) + k - 1]

\* C8: the date axis and the rows of every table of a weekly result are Monday to
\* Friday of the week of the target date
C8_WeekdayAxis ==
    (Weekly /\ ~Result.empty) =>
        /\ Result.dates = MonToFri(request.target)
        /\ Result.saegen_by_day_shift.index = MonToFri(request.target)
        /\ Result.total_rolls_by_group.index = MonToFri(request.target)
        /\ Result.total_shift.index = MonToFri(request.target)
        /\ Result.workers_per_shift.index = MonToFri(request.target)
        /\ Result.workers_per_day.index = MonToFri(request.target)
        /\ Result.total_rolls_per_day.index = MonToFri(request.target)
        /\ Result.ma_by_shift.index = MonToFri(request.target)

\* C8 witness: a weekly result for a Saturday or Sunday target, with a weekday of that
\* week on which there is no row
C8_Witness ==
    /\ Weekly /\ ~Result.empty
    /\ request.target % 7 >= 5
    /\ \E d \in Range(Result.dates) :
          \A k \in 1..Len(summary_long) : summary_long[k].Datum # d

\* C9: a weekly result is empty exactly when no tidy row lies on Monday to Friday of
\* the target week, a daily result exactly when no tidy row lies on the target day
C9_EmptyIffNoRows ==
    /\ Weekly =>
          (Result.empty <=>
              ~\E k \in 1..Len(summary_long) :
                  summary_long[k].Datum \in Range(MonToFri(request.target)))
    /\ Daily =>
          (Result.empty <=>
              ~\E k \in 1..Len(summary_long) : summary_long[k].Datum = request.target)

\* C9 witness: an empty weekly result although the tidy table has rows on the Saturday
\* of the target week
C9_Witness ==
    /\ Weekly /\ Result.empty
    /\ \E k \in 1..Len(summary_long) :
          /\ summary_long[k].Datum - MondayOf(request.target) = 5

\* a task of the target day is all zero: no units and no Hours in any shift
AllZero(m) ==
    \A k \in 1..Len(Result.shift_task_merged) :
        Result.shift_task_merged[k].Metric = m =>
            Result.shift_task_merged[k].Value = 0 /\ Result.shift_task_merged[k].Hours = 0

DayMetrics ==
    {summary_long[k].Metric : k \in {j \in 1..Len(summary_long) :
                                        summary_long[j].Datum = request.target}}

\* C10: a task of the target day, other than the cleanup task, with no Hours and no
\* units in any shift has no row in the Hours pivot and none in the unit pivot
C10_ZeroTaskAbsent ==
    (Daily /\ ~Result.empty) =>
        \A m \in DayMetrics \ {SONSTIGES} :
            AllZero(m) =>
                /\ TitleOf(m) \notin Range(Result.hours_pivot.index)
                /\ TitleOf(m) \notin Range(Result.rolls_pivot.index)

\* C10 witness: a daily result that keeps a task and has dropped an all-zero one
C10_Witness ==
    /\ Daily /\ ~Result.empty
    /\ "Sägen" \in Range(Result.rolls_pivot.index)
    /\ "verladen" \in DayMetrics
    /\ AllZero("verladen")
    /\ "Verladen" \notin Range(Result.hours_pivot.index)

\* the units of metric m on the target day in shift sh, from the tidy table
DayUnits(m, sh) ==
    SumValues(SelectSeq(summary_long, LAMBDA r :
        r.Datum = request.target /\ r.Metric = m /\ r.Schicht = sh))

\* the tasks of the target day: neither a staffing KPI nor the cleanup metric
DayTasks == DayMetrics \ (MaKpiSet \cup {SONSTIGES})

\* metric m is counted on the target day
Counted(m) ==
    \E k \in 1..Len(summary_long) :
        /\ summary_long[k].Datum = request.target
        /\ summary_long[k].Metric = m
        /\ summary_long[k].Value # 0

\* C11: a task counted on the target day that has no entry in the coefficient table
\* has a row in both pivots, with no Hours in any shift and its units of every shift
C11_UnmatchedTaskKept ==
    (Daily /\ ~Result.empty) =>
        \A m \in DayTasks :
            (Counted(m) /\ ~DictHas(angaben_df, minutes_col, m)) =>
                /\ TitleOf(m) \in Range(Result.hours_pivot.index)
                /\ TitleOf(m) \in Range(Result.rolls_pivot.index)
                /\ \A sh \in ShiftSet :
                      /\ Result.hours_pivot.val[<<TitleOf(m), sh>>] = 0
                      /\ Result.rolls_pivot.val[<<TitleOf(m), sh>>] = DayUnits(m, sh)

\* the Hours of label p in shift sh of the Hours pivot, 0 when p has no row
PivotHours(p, sh) ==
    IF p \in Range(Result.hours_pivot.index)
    THEN Result.hours_pivot.val[<<p, sh>>] ELSE 0

\* the units of label p in shift sh of the unit pivot, 0 when p has no row
PivotUnits(p, sh) ==
    IF p \in Range(Result.rolls_pivot.index)
    THEN Result.rolls_pivot.val[<<p, sh>>] ELSE 0

\* C12: in every shift the Hours of the cleanup task are the summed raw value of the
\* cleanup metric of that shift, whatever the coefficient table holds, and its units
\* are 0
C12_CleanupBypass ==
    (Daily /\ ~Result.empty) =>
        /\ \A sh \in ShiftSet :
              /\ PivotHours("Sonstiges", sh) = 60 * DayUnits(SONSTIGES, sh)
              /\ PivotUnits("Sonstiges", sh) = 0
        /\ \A k \in 1..Len(Result.shift_task_merged) :
              Result.shift_task_merged[k].Metric = SONSTIGES =>
                  Result.shift_task_merged[k].Value = 0

\* the place of label p in the order in which groupby("Pretty") hands the labels to
\* the sort
PlaceOf(p) == CHOOSE k \in 1..Len(PrettySorted) : PrettySorted[k] = p

\* C13: the rows of both pivots are in descending order of their unit totals, rows
\* with equal totals in the order in which they went into the sort
C13_StableDescending ==
    (Daily /\ ~Result.empty) =>
        \A t \in {Result.hours_pivot, Result.rolls_pivot} :
            \A j, k \in 1..Len(t.index) :
                j < k =>
                    \/ RowSum(Result.rolls_pivot, t.index[j])
                           > RowSum(Result.rolls_pivot, t.index[k])
                    \/ /\ RowSum(Result.rolls_pivot, t.index[j])
                              = RowSum(Result.rolls_pivot, t.index[k])
                       /\ PlaceOf(t.index[j]) < PlaceOf(t.index[k])

\* the load returned a tidy table
Tidy == Returned /\ ~failed /\ summary_long # <<>>

\* the value of summary column name in the shift summary row k
ColOf(name) == CHOOSE c \in 1..Len(SummaryCols) : SummaryCols[c] = name
Summary(name, k) == TidyAt(ColOf(name), k).Value

\* C14: in every shift summary row 'differenz ma' is 'vorhandene ma' minus
\* 'benötigte ma' to one decimal (the staff figures being in tenths, the difference
\* of the tenths)
C14_StaffVariance ==
    Tidy =>
        \A k \in 1..Len(Keys) :
            Summary("differenz ma", k)
                = 10 * Summary("vorhandene ma", k) - Summary("benötigte ma", k)

\* C14 witness: a shift summary row with staff present and staff required
C14_Witness ==
    /\ Tidy
    /\ \E k \in 1..Len(Keys) :
          /\ Summary("vorhandene ma", k) > 0
          /\ Summary("benötigte ma", k) > 0
          /\ Summary("differenz ma", k) > 0

\* the task buckets: every bucket but the cleanup hours and the staff present
TaskBuckets == {c \in 1..Len(Buckets) : Buckets[c].name \notin {SONSTIGES, "vorhandene ma"}}

\* the minutes of work of row k: bucket x coefficient over the task buckets that have
\* a coefficient entry
TotalWeightedMinutes(k) ==
    SumSeq([c \in 1..Len(Buckets) |->
               IF c \in TaskBuckets /\ DictHas(angaben_df, minutes_col, Buckets[c].name)
               THEN TidyAt(c, k).Value * DictGet(angaben_df, minutes_col, Buckets[c].name)
               ELSE 0])

\* C15: in every shift summary row 'benötigte ma' is (weighted minutes / 60 + cleanup
\* hours) / 7.5 to one decimal; with no coefficient entries and no cleanup hours it
\* is 0 and 'differenz ma' is 'vorhandene ma'
C15_StaffRequired ==
    Tidy =>
        \A k \in 1..Len(Keys) :
            /\ Summary("benötigte ma", k)
                  = StaffTenths(TotalWeightedMinutes(k) + 60 * Summary(SONSTIGES, k))
            /\ (angaben_df.rows = <<>> /\ Summary(SONSTIGES, k) = 0) =>
                  /\ Summary("benötigte ma", k) = 0
                  /\ Summary("differenz ma", k) = 10 * Summary("vorhandene ma", k)

\* the records of df_long of shift summary row k and metric m, by their positions
RecordsAt(k, m) ==
    {j \in 1..Len(df_long) : KeyOf(df_long[j]) = Keys[k] /\ df_long[j].Metric = m}

\* the value of source metric m in shift summary row k: 0 when the row has no record
\* of m, else the value that the wide table holds, which is that of the earliest
\* record
SourceValue(k, m) ==
    IF RecordsAt(k, m) = {} THEN 0
    ELSE df_long[CHOOSE j \in RecordsAt(k, m) : \A q \in RecordsAt(k, m) : j <= q].Value

\* C16: every bucket of every shift summary row is a number, the sum of the values of
\* its one or two source metrics in that row, a source metric without a value in the
\* row counting as 0
C16_BucketSums ==
    Tidy =>
        \A c \in 1..Len(Buckets) : \A k \in 1..Len(Keys) :
            /\ TidyAt(c, k).Metric = Buckets[c].name
            /\ TidyAt(c, k).Datum = Keys[k][1]
            /\ TidyAt(c, k).Team = Keys[k][2]
            /\ TidyAt(c, k).Value \in Int
            /\ TidyAt(c, k).Value =
                  SumSeq([j \in 1..Len(Buckets[c].src) |-> SourceValue(k, Buckets[c].src[j])])

\* C16 witness: a row whose 'sägen' bucket adds two source metrics that both have a
\* value, and whose 'verladen' bucket has no source record at all
C16_Witness ==
    /\ Tidy
    /\ \E k \in 1..Len(Keys) :
          /\ SourceValue(k, "auftragsrollen gesägt") = 1
          /\ SourceValue(k, "abfallrollen gesägt") = 2
          /\ Summary("sägen", k) = 3
          /\ RecordsAt(k, "verladene rollen") = {}
          /\ Summary("verladen", k) = 0

\* the column names of the Angaben sheets that hold "min", "minute" or "vorgabe" in
\* some letter case
NameHasMin(c) == c \in {"Minuten", "VORGABE", "Termin"}

\* C17: the coefficient column is the first column, in the order of the sheet, whose
\* name holds "min", "minute" or "vorgabe" in any letter case, and the second column
\* when no name does
C17_MinutesColumn ==
    (pc # "start" /\ ~failed) =>
        LET cols == file.angaben.cols IN
        IF \E k \in 1..Len(cols) : NameHasMin(cols[k])
        THEN \E k \in 1..Len(cols) :
                /\ minutes_col = cols[k]
                /\ NameHasMin(cols[k])
                /\ \A j \in 1..(k - 1) : ~NameHasMin(cols[j])
        ELSE Len(cols) >= 2 /\ minutes_col = cols[2]

\* C17 witness: the load returned with the third column as the coefficient column,
\* its upper-case name being the only one that matches
C17_Witness ==
    /\ Returned /\ ~failed
    /\ file.angaben.cols = <<"Task", "Info", "VORGABE">>
    /\ minutes_col = "VORGABE"
    /\ \E k \in 1..Len(summary_long) :
          summary_long[k].Metric = "benötigte ma" /\ summary_long[k].Value > 0

\* the records that the sheet grid raw yields when it is read as a month sheet
SheetRecords(raw) ==
    IF RawEmpty(raw) THEN <<>> ELSE RecordsOfRuns(raw, RunSeq(Runs(raw)))

\* C18: a sheet whose name is "Juli" in any letter case is ingested: the records of a
\* load that did not fail start with the records of that sheet, as they do for the
\* same sheet named "Juli"
C18_SheetNameAnyCase ==
    (Returned /\ ~failed) =>
        \A k \in 1..Len(file.sheets) :
            Lower(file.sheets[k].name) = Lower(months[1]) =>
                /\ Len(records) >= Len(SheetRecords(file.sheets[k].grid))
                /\ SubSeq(records, 1, Len(SheetRecords(file.sheets[k].grid)))
                      = SheetRecords(file.sheets[k].grid)

\* load_excel has a next step: one of the steps before the end of the months loop, or
\* the end of the loop, where Finish applies whatever the records are
CanStep ==
    \/ ENABLED LoadAngaben
    \/ ENABLED SkipMonth
    \/ ENABLED OpenMonth
    \/ ENABLED SkipBlank
    \/ ENABLED EndSheet
    \/ ENABLED StartBlock
    \/ ENABLED ExtendBlock
    \/ ENABLED CloseBlock
    \/ (pc = "months" /\ month > Len(months))

\* what load_excel hands back when it found no records, and after an exception
EmptyReturns ==
    /\ (Returned /\ ~failed /\ records = <<>>) =>
          /\ df_long = <<>> /\ summary_long = <<>>
          /\ angaben_df.cols = file.angaben.cols
          /\ Len(angaben_df.rows) = Len(file.angaben.rows)
          /\ minutes_col \in Range(file.angaben.cols)
    /\ (Returned /\ failed) =>
          /\ df_long = <<>> /\ summary_long = <<>>
          /\ angaben_df = EmptyFrame
          /\ minutes_col = NoneCol

\* C19: load_excel always comes to a return: with no records it returns an empty
\* long table and an empty tidy table together with the coefficient table and the
\* column name it loaded, and after an exception three empty tables and no column
\* name
C19_NeverRaises ==
    /\ EmptyReturns
    /\ ~Returned => CanStep

\* C19 witness: the load returned empty structures after an exception in the second
\* block of a sheet, the coefficient table having been loaded before
C19_Witness ==
    /\ Returned /\ failed
    /\ Len(blocks) >= 2
    /\ file.angaben.rows # <<>>
    /\ df_long = <<>> /\ angaben_df = EmptyFrame

\* the normalisation of one record: BuildLong on the record alone
Normalize(r) == BuildLong(<<r>>)[1]

\* a normalised record as the input of a second normalisation: its number and its
\* date as cells
AsCells(n) ==
    [n EXCEPT !.Value = Num(n.Value),
              !.Datum = IF n.Datum = NaT THEN Null ELSE Date(n.Datum)]

\* the cells of the metric rows of the blocks cut so far, as records with the metric
\* name as it stands in the sheet
SheetCells ==
    UNION {{[Datum |-> Cell(RawOf(blocks[b].month), 0, c),
             Team |-> Cell(RawOf(blocks[b].month), blocks[b].start, c),
             Schicht |-> Cell(RawOf(blocks[b].month), blocks[b].start + 1, c),
             Metric |-> StrOf(Cell(RawOf(blocks[b].month), r, 0)),
             Value |-> Cell(RawOf(blocks[b].month), r, c)] :
                r \in (blocks[b].start + 2)..(blocks[b].end - 1),
                c \in 1..(Len(RawOf(blocks[b].month)[1]) - 1)} :
            b \in {q \in 1..Len(blocks) : blocks[q].end - blocks[q].start >= 2}}

\* C20: normalising a normalised record gives the same record, for the cells of the
\* sheets and for the records that load_excel extracted
C20_NormalizerIdempotent ==
    /\ \A r \in SheetCells : Normalize(AsCells(Normalize(r))) = Normalize(r)
    /\ \A j \in 1..Len(records) :
          Normalize(AsCells(Normalize(records[j]))) = Normalize(records[j])
    /\ (Returned /\ ~failed) =>
          \A j \in 1..Len(df_long) : Normalize(AsCells(df_long[j])) = df_long[j]

\* C20 witness: the load returned a record whose metric name was trimmed and
\* lower-cased and one whose unparsable value became 0
C20_Witness ==
    /\ Returned /\ ~failed
    /\ \E r \in SheetCells :
          /\ r.Metric = " abfallrollen gesägt"
          /\ Normalize(r).Metric = "abfallrollen gesägt"
          /\ r.Value = Str("x")
          /\ Normalize(r).Value = 0
    /\ \E j \in 1..Len(df_long) :
          df_long[j].Metric = "abfallrollen gesägt" /\ df_long[j].Value = 0
    /\ \E r \in SheetCells : r.Metric = "Anzahl MA" /\ Normalize(r).Metric = "anzahl ma"

\* a table with every Value that is not a number replaced by 0
NumbersOnly(table) ==
    [k \in 1..Len(table) |->
        [table[k] EXCEPT !.Datum = IF @.k = "date" THEN @.n ELSE NaT,
                         !.Value = IF @.k = "num" THEN @.n ELSE 0]]

OnTable == pc = "table"

\* C21: every returned long record has a number as Value, 0 for a cell that is not a
\* number, and the result of either aggregator on a table with Values that are not
\* numbers is its result on the table with those Values replaced by 0
C21_UnparsableIsZero ==
    /\ (Returned /\ ~failed /\ records # <<>>) =>
          /\ Len(df_long) = Len(records)
          /\ \A j \in 1..Len(df_long) :
                df_long[j].Value = IF records[j].Value.k = "num"
                                   THEN records[j].Value.n ELSE 0
    /\ (OnTable /\ Weekly) =>
          Result = aggregate_weekly(NumbersOnly(summary_long), request.target)
    /\ (OnTable /\ Daily) =>
          Result \in aggregate_daily(NumbersOnly(summary_long), angaben_df,
                                     request.target, minutes_col)

\* C21 witness: a weekly result on a table that holds a text Value and a number in the
\* target week, the day total being the number alone
C21_Witness ==
    /\ OnTable /\ Weekly /\ ~Result.empty
    /\ Len(summary_long) = 2
    /\ summary_long[1].Datum = Date(1) /\ summary_long[1].Metric = "sägen"
    /\ summary_long[1].Value = Str("x")
    /\ summary_long[2].Datum = Date(1) /\ summary_long[2].Metric = "sägen"
    /\ summary_long[2].Value = Num(2)
    /\ Result.total_rolls_per_day.val[1] = 2

\* the tidy rows that a pivot of the tidy table on (Datum, Schicht, Team) and Metric
\* puts into the cell of row r
SameCell(r) ==
    SelectSeq(summary_long, LAMBDA q :
        /\ q.Datum = r.Datum /\ q.Schicht = r.Schicht /\ q.Team = r.Team
        /\ q.Metric = r.Metric)

\* C22: every value of every shift summary row is found again when the tidy table is
\* pivoted back on (date, shift, team): its row has a shift, so the pivot keeps it, and
\* no other summary row falls into the same cell
C22_MeltLossless ==
    (Returned /\ ~failed /\ summary_long # <<>>) =>
        \A k \in 1..Len(Keys) : \A c \in 1..Len(SummaryCols) :
            /\ TidyAt(c, k).Schicht # NaShift
            /\ Len(SameCell(TidyAt(c, k))) = 1
            /\ SameCell(TidyAt(c, k))[1].Value = TidyAt(c, k).Value

\* the metrics left out of the task rollups
Excluded == MaKpiSet \cup {SONSTIGES}

\* the tidy table with the Value of every excluded row changed by f: 0 -> all to 0,
\* 1 -> each raised by 1, 2 -> each negated
Revalued(f) ==
    [k \in 1..Len(summary_long) |->
        IF summary_long[k].Metric \in Excluded
        THEN [summary_long[k] EXCEPT !.Value = CASE f = 0 -> 0
                                                [] f = 1 -> @ + 1
                                                [] OTHER -> 0 - @]
        ELSE summary_long[k]]

\* C23: the three task rollups of a weekly result are the same when the values of the
\* staffing KPI rows and of the cleanup rows are changed
C23_ExcludedFromRollups ==
    (~OnTable /\ Weekly /\ ~Result.empty) =>
        \A f \in 0..2 :
            LET alt == aggregate_weekly(Revalued(f), request.target) IN
            /\ ~alt.empty
            /\ alt.total_rolls_by_group = Result.total_rolls_by_group
            /\ alt.total_shift = Result.total_shift
            /\ alt.total_rolls_per_day = Result.total_rolls_per_day

\* C23 witness: a weekly result over a week with staff present, cleanup hours and
\* task units
C23_Witness ==
    /\ ~OnTable /\ Weekly /\ ~Result.empty
    /\ \E k \in 1..Len(summary_long) :
          /\ summary_long[k].Metric = "vorhandene ma"
          /\ summary_long[k].Value > 0
          /\ summary_long[k].Schicht # NaShift
          /\ summary_long[k].Datum \in Range(Result.dates)
    /\ \E k \in 1..Len(summary_long) :
          /\ summary_long[k].Metric = "differenz ma"
          /\ summary_long[k].Value # 0
          /\ summary_long[k].Datum \in Range(Result.dates)
    /\ \E d \in Range(Result.dates) : Result.total_rolls_per_day.val[d] > 0

\* the table that the aggregators work on: the tidy table of load_excel, or the table
\* of another caller with its Values that are not numbers read as 0
TidyNumbers == IF OnTable THEN NumbersOnly(summary_long) ELSE summary_long

\* the task group of a metric name by the prefix of its trimmed, lower-cased form
GroupOf(m) ==
    CASE m \in {"absetzen", "absetzen 2"} -> "Absetzen"
      [] m = "richten" -> "Richten"
      [] m \in {"verladen", "Verladen"} -> "Verladen"
      [] m = "zusammenfahren" -> "Zusammenfahren"
      [] OTHER -> "Sonstige"

\* the rows of day d that count for group g
GroupRows(d, g) ==
    SelectSeq(TidyNumbers, LAMBDA r :
        r.Datum = d /\ r.Metric \notin Excluded /\ GroupOf(r.Metric) = g)

\* C24: every cell (day, group) of total_rolls_by_group is the sum of the values of the
\* rows of that day whose metric is not excluded and belongs to the group by its
\* prefix, every other metric counting for Sonstige
C24_TaskGroups ==
    (Weekly /\ ~Result.empty) =>
        /\ \A k \in 1..Len(TidyNumbers) :
              TidyNumbers[k].Metric \notin Excluded =>
                  /\ classify_task(TidyNumbers[k].Metric) = GroupOf(TidyNumbers[k].Metric)
                  /\ GroupOf(TidyNumbers[k].Metric) \in Range(TASK_ORDER)
        /\ \A d \in Range(Result.dates) : \A g \in Range(TASK_ORDER) :
              Result.total_rolls_by_group.val[<<d, g>>] = SumValues(GroupRows(d, g))

\* C24 witness: a week in which 'absetzen 2' counts for Absetzen, 'Verladen' for
\* Verladen and 'sägen' for Sonstige
C24_Witness ==
    /\ OnTable /\ Weekly /\ ~Result.empty
    /\ Len(summary_long) = 2
    /\ summary_long[1].Datum = Date(1) /\ summary_long[1].Metric = "absetzen 2"
    /\ summary_long[1].Value = Num(2)
    /\ summary_long[2].Datum = Date(1) /\ summary_long[2].Metric = "sägen"
    /\ summary_long[2].Value = Num(2)
    /\ Result.total_rolls_by_group.val[<<1, "Absetzen">>] = 2
    /\ Result.total_rolls_by_group.val[<<1, "Sonstige">>] = 2
    /\ Result.total_rolls_by_group.val[<<1, "Verladen">>] = 0

\* a table with a row for each day Monday to Friday of the target week, the columns
\* cols in their order, and a value in every cell
Dense(t, cols) ==
    /\ t.index = MonToFri(request.target)
    /\ t.columns = cols
    /\ DOMAIN t.val = Range(MonToFri(request.target)) \X Range(cols)

\* no row of day d and shift sh with a metric of S
NoData(d, sh, S) ==
    \A k \in 1..Len(TidyNumbers) :
        ~(/\ TidyNumbers[k].Datum = d
          /\ TidyNumbers[k].Schicht = sh
          /\ TidyNumbers[k].Metric \in S)

PresentTasks == {TidyNumbers[k].Metric : k \in 1..Len(TidyNumbers)} \ Excluded

\* C25: in a weekly result every table has the rows Monday to Friday, the day-by-shift
\* tables have the columns Früh, Spät, Nacht, the group table the five task groups,
\* every cell holds a number, and a cell without a row behind it holds 0
C25_DenseTables ==
    (Weekly /\ ~Result.empty) =>
        /\ Dense(Result.saegen_by_day_shift, SHIFT_ORDER)
        /\ Dense(Result.total_shift, SHIFT_ORDER)
        /\ Dense(Result.workers_per_shift, SHIFT_ORDER)
        /\ Dense(Result.ma_by_shift, SHIFT_ORDER)
        /\ Dense(Result.total_rolls_by_group, TASK_ORDER)
        /\ Result.workers_per_day.index = MonToFri(request.target)
        /\ DOMAIN Result.workers_per_day.val = Range(MonToFri(request.target))
        /\ Result.total_rolls_per_day.index = MonToFri(request.target)
        /\ DOMAIN Result.total_rolls_per_day.val = Range(MonToFri(request.target))
        /\ \A d \in Range(MonToFri(request.target)) :
              /\ \A sh \in Range(SHIFT_ORDER) :
                    /\ NoData(d, sh, {"sägen"}) =>
                          Result.saegen_by_day_shift.val[<<d, sh>>] = 0
                    /\ NoData(d, sh, PresentTasks) => Result.total_shift.val[<<d, sh>>] = 0
                    /\ NoData(d, sh, {"vorhandene ma"}) =>
                          /\ Result.workers_per_shift.val[<<d, sh>>] = 0
                          /\ Result.ma_by_shift.val[<<d, sh>>] = 0
              /\ \A g \in Range(TASK_ORDER) :
                    GroupRows(d, g) = <<>> => Result.total_rolls_by_group.val[<<d, g>>] = 0
              /\ (\A sh \in ShiftSet \cup {NaShift} : NoData(d, sh, {"vorhandene ma"})) =>
                    Result.workers_per_day.val[d] = 0
              /\ (\A sh \in ShiftSet \cup {NaShift} : NoData(d, sh, PresentTasks)) =>
                    Result.total_rolls_per_day.val[d] = 0

\* C25 witness: a weekly result on a table with a single row, units of the early
\* shift on day 1: four days, two shifts and four groups have no data
C25_Witness ==
    /\ OnTable /\ Weekly /\ ~Result.empty
    /\ Len(summary_long) = 1
    /\ summary_long[1].Metric = "absetzen 2"
    /\ summary_long[1].Schicht = "Früh"
    /\ summary_long[1].Value = Num(2)
    /\ Result.total_shift.val[<<1, "Früh">>] = 2
    /\ Result.total_shift.val[<<1, "Nacht">>] = 0
    /\ Result.total_shift.val[<<3, "Früh">>] = 0
    /\ Result.total_rolls_by_group.val[<<1, "Richten">>] = 0
    /\ Result.saegen_by_day_shift.val[<<1, "Früh">>] = 0
    /\ Result.workers_per_day.val[1] = 0

\* C26: a call of aggregate_weekly or aggregate_daily, whatever its result, leaves the
\* tidy table and the coefficient table of the caller as they were
C26_InputsUnchanged ==
    [][request' # request =>
          /\ summary_long' = summary_long
          /\ angaben_df' = angaben_df
          /\ minutes_col' = minutes_col]_vars

\* C26 witness: after a call with a non-empty result the table of the caller still
\* holds the text Value and the missing date that the aggregator read as 0 and as no date
C26_Witness ==
    /\ OnTable /\ ~Result.empty
    /\ Len(summary_long) = 2
    /\ summary_long[1].Datum = Date(1) /\ summary_long[1].Value = Str("x")
    /\ summary_long[2].Datum = Null /\ summary_long[2].Value = Null
    /\ angaben_df = NormalizeAngaben(AngabenOne)

\* C27: the Hours pivot and the unit pivot of a daily result have the same sequence of
\* task rows and the same sequence of shift columns, Früh, Spät, Nacht, and a value
\* in every cell
C27_PivotsAligned ==
    (Daily /\ ~Result.empty) =>
        /\ Result.hours_pivot.index = Result.rolls_pivot.index
        /\ Result.hours_pivot.columns = SHIFT_ORDER
        /\ Result.rolls_pivot.columns = SHIFT_ORDER
        /\ DOMAIN Result.hours_pivot.val = Range(Result.hours_pivot.index) \X ShiftSet
        /\ DOMAIN Result.rolls_pivot.val = DOMAIN Result.hours_pivot.val

\* C27 witness: a daily result with the task rows Sägen, Sonstiges in this order, which
\* is not the alphabetical one
C27_Witness ==
    /\ ~OnTable /\ Daily /\ ~Result.empty
    /\ Result.rolls_pivot.index = <<"Sägen", "Sonstiges">>
    /\ Result.hours_pivot.val[<<"Sonstiges", "Spät">>] > 0
    /\ Result.rolls_pivot.val[<<"Sägen", "Spät">>] > 0

\* the scan of a sheet is under way: seeking-start or in-block
Scanning == pc \in {"seek", "inblock"}

\* C28 as stated: every step of the block scan raises i, i never exceeds the row
\* count, finitely many blocks are cut and the scan reaches its end
C28_ScanWithinRows ==
    /\ [][Scanning =>
             /\ 1 <= i /\ i <= Len(Raw)
             /\ Len(BlocksOf(month)) <= Len(Raw)
             /\ Scanning' => (i' > i /\ i' <= Len(Raw))]_vars
    /\ Scanning ~> ~Scanning

\* C28 amended: every step of the block scan raises i, i never exceeds the row count
\* plus one, at most as many blocks as rows are cut and the scan reaches its end
C28_ScanTerminates ==
    /\ [][Scanning =>
             /\ 1 <= i /\ i <= Len(Raw) + 1
             /\ Len(BlocksOf(month)) <= Len(Raw)
             /\ Scanning' => (i' > i /\ i' <= Len(Raw) + 1)]_vars
    /\ Scanning ~> ~Scanning

\* C28 witness: the scan has passed a separator and cut a block that ends with the
\* last row, and seeks on with i one past the row count
C28_Witness ==
    /\ pc = "seek"
    /\ Len(BlocksOf(month)) = 1
    /\ blocks[Len(blocks)].start > 1
    /\ blocks[Len(blocks)].end = Len(Raw)
    /\ i = Len(Raw) + 1

\* the sum of all cells of a table
TableSum(t) == SumSeq([k \in 1..Len(t.index) |-> RowSum(t, t.index[k])])

\* C29: for a weekday with data, the cells of the unit pivot of the daily result add
\* up to the total of that day in the weekly result of its week
C29_WeeklyDailyAgree ==
    (~OnTable /\ Daily /\ ~Result.empty /\ weekday(request.target) < 5) =>
        TableSum(Result.rolls_pivot) =
            aggregate_weekly(summary_long, request.target).total_rolls_per_day.val[request.target]

\* C30: every cell of the unit pivot of a daily result is the sum of the Values of the
\* tidy rows of the target day with the metric and the shift of the cell
C30_UnitsNotMultiplied ==
    (~OnTable /\ Daily /\ ~Result.empty) =>
        \A m \in DayTasks : \A sh \in ShiftSet :
            TitleOf(m) \in Range(Result.rolls_pivot.index) =>
                Result.rolls_pivot.val[<<TitleOf(m), sh>>] = DayUnits(m, sh)

=============================================================================
